---- MODULE Spec2Model ----
(***************************************************************************)
(* A model of madoop (src/madoop/mapreduce.py): the mapreduce() pipeline,  *)
(* its input preparer, its task runner and its group (shuffle) stage.      *)
(*                                                                         *)
(* Text is modelled at the level the code works on it.  A file's content   *)
(* is a sequence of ASCII code points; a str is a sequence of code points  *)
(* too, and str comparison is Python's: lexicographic by code point.       *)
(* Reading a file in text mode translates newlines and splits the text     *)
(* into lines that keep their terminator; writing concatenates.            *)
(***************************************************************************)
EXTENDS Integers, Sequences, FiniteSets, TLC

(***************************************************************************)
(* Characters and text                                                     *)
(***************************************************************************)
TAB == 9
LF == 10
CR == 13

\* An item of a content is an ASCII code point, or Run(n): n consecutive
\* 'x' characters, which lets a file larger than MAX_INPUT_SPLIT_SIZE be
\* written down.  Run items are one past the last Unicode code point and up.
RunBase == 1114111 + 1
Run(n) == RunBase + n
IsRun(c) == c >= RunBase
RunLen(c) == c - RunBase

RECURSIVE Concat(_)
Concat(ss) == IF ss = <<>> THEN <<>> ELSE Head(ss) \o Concat(Tail(ss))

RECURSIVE SumSeq(_)
SumSeq(ns) == IF ns = <<>> THEN 0 ELSE Head(ns) + SumSeq(Tail(ns))

\* pathlib.Path.stat().st_size: the number of bytes of an ASCII content
st_size(content) ==
    SumSeq([i \in 1..Len(content) |->
              IF IsRun(content[i]) THEN RunLen(content[i]) ELSE 1])

\* Text-mode reading (open() with newline=None): universal newlines, every
\* "\r\n" and every other "\r" is handed to the program as "\n".
RECURSIVE TranslateNewlines(_)
TranslateNewlines(content) ==
    IF content = <<>> THEN <<>>
    ELSE IF Head(content) = CR
         THEN <<LF>> \o TranslateNewlines(
                  IF Len(content) >= 2 /\ content[2] = LF
                  THEN SubSeq(content, 3, Len(content))
                  ELSE Tail(content))
         ELSE <<Head(content)>> \o TranslateNewlines(Tail(content))

\* The lines of a text, each with its "\n"; the last one may have none.
RECURSIVE SplitLines(_)
SplitLines(text) ==
    IF text = <<>> THEN <<>>
    ELSE IF \E i \in 1..Len(text) : text[i] = LF
         THEN LET e == CHOOSE i \in 1..Len(text) :
                          /\ text[i] = LF
                          /\ \A j \in 1..(i - 1) : text[j] # LF
              IN  <<SubSeq(text, 1, e)>>
                    \o SplitLines(SubSeq(text, e + 1, Len(text)))
         ELSE <<text>>

\* iterating over a file opened for reading in text mode
ReadLines(content) == SplitLines(TranslateNewlines(content))

\* file.readline(): the first line, "" at end of file
ReadLine(content) ==
    LET ls == ReadLines(content) IN IF ls = <<>> THEN <<>> ELSE ls[1]

\* writing lines to a file opened with 'w' (on Linux "\n" is written as is)
WriteLines(lines) == Concat(lines)

\* Python's str comparison a < b: lexicographic by code point
RECURSIVE StrLess(_, _)
StrLess(a, b) ==
    IF b = <<>> THEN FALSE
    ELSE IF a = <<>> THEN TRUE
    ELSE IF Head(a) # Head(b) THEN Head(a) < Head(b)
    ELSE StrLess(Tail(a), Tail(b))

StrLeq(a, b) == a = b \/ StrLess(a, b)

\* str.partition('\t')[0]: the text before the first tab, all of it if none
RECURSIVE PartitionTab(_)
PartitionTab(line) ==
    IF line = <<>> \/ Head(line) = TAB THEN <<>>
    ELSE <<Head(line)>> \o PartitionTab(Tail(line))

\* str.rstrip(): trailing whitespace removed
IsSpace(c) == c \in {9, 10, 11, 12, 13, 28, 29, 30, 31, 32}

RECURSIVE RStrip(_)
RStrip(s) ==
    IF s = <<>> THEN <<>>
    ELSE IF IsSpace(s[Len(s)]) THEN RStrip(SubSeq(s, 1, Len(s) - 1))
    ELSE s

\* sorted(lines): a stable sort by str comparison
RECURSIVE InsertSorted(_, _)
InsertSorted(sorted, line) ==
    IF sorted = <<>> THEN <<line>>
    ELSE IF StrLess(line, Head(sorted)) THEN <<line>> \o sorted
    ELSE <<Head(sorted)>> \o InsertSorted(Tail(sorted), line)

RECURSIVE Sorted(_)
Sorted(lines) ==
    IF lines = <<>> THEN <<>>
    ELSE InsertSorted(Sorted(SubSeq(lines, 1, Len(lines) - 1)),
                      lines[Len(lines)])

(***************************************************************************)
(* hashlib.md5 (RFC 1321), on 32-bit words kept as <<high, low>> pairs of  *)
(* 16-bit halves so that no intermediate value leaves the integer range.   *)
(***************************************************************************)
Half == 2 ^ 16

\* the bitwise operations on 4-bit values, tabulated
RECURSIVE BitOp(_, _, _, _)
BitOp(op, x, y, n) ==
    IF n = 0 THEN 0
    ELSE LET p == x % 2
             q == y % 2
             r == IF op = "and" THEN p * q
                  ELSE IF op = "or" THEN (IF p + q > 0 THEN 1 ELSE 0)
                  ELSE (p + q) % 2
         IN  r + 2 * BitOp(op, x \div 2, y \div 2, n - 1)

And4 == [x \in 0..15 |-> [y \in 0..15 |-> BitOp("and", x, y, 4)]]
Or4  == [x \in 0..15 |-> [y \in 0..15 |-> BitOp("or", x, y, 4)]]
Xor4 == [x \in 0..15 |-> [y \in 0..15 |-> BitOp("xor", x, y, 4)]]

\* a table applied to the four 4-bit digits of two 16-bit values
Bits16(t, x, y) ==
    t[x % 16][y % 16]
      + 16 * t[(x \div 16) % 16][(y \div 16) % 16]
      + 256 * t[(x \div 256) % 16][(y \div 256) % 16]
      + 4096 * t[x \div 4096][y \div 4096]

WAnd(a, b) == <<Bits16(And4, a[1], b[1]), Bits16(And4, a[2], b[2])>>
WOr(a, b)  == <<Bits16(Or4, a[1], b[1]), Bits16(Or4, a[2], b[2])>>
WXor(a, b) == <<Bits16(Xor4, a[1], b[1]), Bits16(Xor4, a[2], b[2])>>
WNot(a)    == <<Half - 1 - a[1], Half - 1 - a[2]>>

\* 32-bit addition modulo 2^32
WAdd(a, b) ==
    LET lo == a[2] + b[2]
        hi == a[1] + b[1] + (lo \div Half)
    IN  <<hi % Half, lo % Half>>

Pow2(n) == 2 ^ n

\* rotate a 32-bit word left by s bits, 0 < s < 32
WRotl(w, s) ==
    LET v == IF s >= 16 THEN <<w[2], w[1]>> ELSE w
        r == s % 16
    IN  IF r = 0 THEN v
        ELSE <<((v[1] * Pow2(r)) % Half) + (v[2] \div Pow2(16 - r)),
               ((v[2] * Pow2(r)) % Half) + (v[1] \div Pow2(16 - r))>>

\* per-round shift amounts
MD5Shift ==
    <<7, 12, 17, 22, 7, 12, 17, 22, 7, 12, 17, 22, 7, 12, 17, 22,
      5, 9, 14, 20, 5, 9, 14, 20, 5, 9, 14, 20, 5, 9, 14, 20,
      4, 11, 16, 23, 4, 11, 16, 23, 4, 11, 16, 23, 4, 11, 16, 23,
      6, 10, 15, 21, 6, 10, 15, 21, 6, 10, 15, 21, 6, 10, 15, 21>>

\* floor(2^32 * abs(sin(i))) for i = 1..64
MD5Sine ==
    <<
      <<55146, 42104>>, <<59591, 46934>>, <<9248, 28891>>, <<49597, 52974>>,
      <<62844, 4015>>, <<18311, 50730>>, <<43056, 17939>>, <<64838, 38145>>,
      <<27008, 39128>>, <<35652, 63407>>, <<65535, 23473>>, <<35164, 55230>>,
      <<27536, 4386>>, <<64920, 29075>>, <<42617, 17294>>, <<18868, 2081>>,
      <<63006, 9570>>, <<49216, 45888>>, <<9822, 23121>>, <<59830, 51114>>,
      <<54831, 4189>>, <<580, 5203>>, <<55457, 59009>>, <<59347, 64456>>,
      <<8673, 52710>>, <<49975, 2006>>, <<62677, 3463>>, <<17754, 5357>>,
      <<43491, 59653>>, <<64751, 41976>>, <<26479, 729>>, <<36138, 19594>>,
      <<65530, 14658>>, <<34673, 63105>>, <<28061, 24866>>, <<64997, 14348>>,
      <<42174, 59972>>, <<19422, 53161>>, <<63163, 19296>>, <<48831, 48240>>,
      <<10395, 32454>>, <<60065, 10234>>, <<54511, 12421>>, <<1160, 7429>>,
      <<55764, 53305>>, <<59099, 39397>>, <<8098, 31992>>, <<50348, 22117>>,
      <<62505, 8772>>, <<17194, 65431>>, <<43924, 9127>>, <<64659, 41017>>,
      <<25947, 22979>>, <<36620, 52370>>, <<65519, 62589>>, <<34180, 24017>>,
      <<28584, 32335>>, <<65068, 59104>>, <<41729, 17172>>, <<19976, 4513>>,
      <<63315, 32386>>, <<48442, 62005>>, <<10967, 53947>>, <<60294, 54161>>
    >>

\* the initial chaining value A, B, C, D
MD5Init ==
    << <<26437, 8961>>, <<61389, 43913>>, <<39098, 56574>>, <<4146, 21622>> >>

\* the message, a 0x80 byte, zeros up to 56 modulo 64, and the bit length
\* as 8 little-endian bytes
MD5Pad(bytes) ==
    LET n == Len(bytes)
        z == (119 - (n % 64)) % 64
        bits == 8 * n
    IN  bytes \o <<128>> \o [i \in 1..z |-> 0]
          \o [i \in 1..8 |-> IF i <= 4 THEN (bits \div Pow2(8 * (i - 1))) % 256
                             ELSE 0]

\* the 16 little-endian words of block b (from 0) of a padded message
MD5Words(padded, b) ==
    [j \in 1..16 |->
        LET o == 64 * b + 4 * (j - 1)
        IN  <<padded[o + 3] + 256 * padded[o + 4],
              padded[o + 1] + 256 * padded[o + 2]>>]

\* one of the 64 steps (i from 0) on the state st = <<A, B, C, D>>
MD5Step(st, m, i) ==
    LET a == st[1]
        b == st[2]
        c == st[3]
        d == st[4]
        f == IF i < 16 THEN WOr(WAnd(b, c), WAnd(WNot(b), d))
             ELSE IF i < 32 THEN WOr(WAnd(d, b), WAnd(WNot(d), c))
             ELSE IF i < 48 THEN WXor(WXor(b, c), d)
             ELSE WXor(c, WOr(b, WNot(d)))
        g == IF i < 16 THEN i
             ELSE IF i < 32 THEN (5 * i + 1) % 16
             ELSE IF i < 48 THEN (3 * i + 5) % 16
             ELSE (7 * i) % 16
        t == WAdd(WAdd(WAdd(f, a), MD5Sine[i + 1]), m[g + 1])
    IN  <<d, WAdd(b, WRotl(t, MD5Shift[i + 1])), b, c>>

\* steps i .. n-1; the test on nx has a step computed before the next starts
RECURSIVE MD5Rounds(_, _, _, _)
MD5Rounds(st, m, i, n) ==
    IF i = n THEN st
    ELSE LET nx == MD5Step(st, m, i)
         IN  IF Len(nx) = 4 THEN MD5Rounds(nx, m, i + 1, n) ELSE st

\* the 64 steps on one block, in four rounds of 16
MD5Block(h, m) ==
    LET r1 == MD5Rounds(h, m, 0, 16)
        r2 == MD5Rounds(r1, m, 16, 32)
        r3 == MD5Rounds(r2, m, 32, 48)
        r4 == MD5Rounds(r3, m, 48, 64)
    IN  [k \in 1..4 |-> WAdd(h[k], r4[k])]

RECURSIVE MD5Blocks(_, _, _)
MD5Blocks(h, padded, b) ==
    IF 64 * b >= Len(padded) THEN h
    ELSE MD5Blocks(MD5Block(h, MD5Words(padded, b)), padded, b + 1)

\* the 16 digest bytes: A, B, C, D, each least significant byte first
MD5Digest(bytes) ==
    LET h == MD5Blocks(MD5Init, MD5Pad(bytes), 0)
    IN  [k \in 1..16 |->
            LET w == h[((k - 1) \div 4) + 1]
                p == (k - 1) % 4
            IN  IF p = 0 THEN w[2] % 256
                ELSE IF p = 1 THEN w[2] \div 256
                ELSE IF p = 2 THEN w[1] % 256
                ELSE w[1] \div 256]

(***************************************************************************)
(* Program constants and pure functions of mapreduce.py                    *)
(***************************************************************************)
MAX_INPUT_SPLIT_SIZE == 2 ^ 20
MAX_NUM_REDUCE == 4

\* "#!/usr/bin/env python3"
Directive ==
    <<35, 33, 47, 117, 115, 114, 47, 98, 105, 110, 47, 101, 110, 118, 32,
      112, 121, 116, 104, 111, 110, 51>>

\* check_shebang(exe) returns (TRUE) or raises MadoopError (FALSE)
check_shebang(exe) ==
    LET line == RStrip(ReadLine(exe)) IN line = Directive

\* str(num) for num >= 0
RECURSIVE Digits(_)
Digits(num) ==
    IF num < 10 THEN <<48 + num>>
    ELSE Digits(num \div 10) \o <<48 + (num % 10)>>

\* a format spec without a width
ZeroPadNone(digits) == digits

\* the format spec 05d: zeros on the left up to a width of 5
ZeroPad5(digits) ==
    IF Len(digits) >= 5 THEN digits
    ELSE [k \in 1..(5 - Len(digits)) |-> 48] \o digits

\* f"part-{num:05d}"
part_filename(num) == <<112, 97, 114, 116, 45>> \o ZeroPad5(Digits(num))

\* math.ceil(st_size / MAX_INPUT_SPLIT_SIZE)
NumSplit(size) == (size + MAX_INPUT_SPLIT_SIZE - 1) \div MAX_INPUT_SPLIT_SIZE

\* a counter that advances by one for each input file
NextPartNumPerFile(num, num_split) == num + 1

\* part_num += num_split
NextPartNum(num, num_split) == num + num_split

\* a split that gives out_files[k] the k-th block of consecutive lines
SplitPartBlocks(lines, k, n) ==
    LET size == (Len(lines) + n - 1) \div n
        last == IF (k + 1) * size < Len(lines) THEN (k + 1) * size ELSE Len(lines)
    IN  SubSeq(lines, k * size + 1, last)

\* the lines out_files[k] receives (k from 0): those of index i, i % n = k
SplitPart(lines, k, n) ==
    LET idx == {p \in 1..Len(lines) : (p - 1) % n = k}
        RECURSIVE Pick(_)
        Pick(p) == IF p > Len(lines) THEN <<>>
                   ELSE (IF p \in idx THEN <<lines[p]>> ELSE <<>>) \o Pick(p + 1)
    IN  Pick(1)

\* sort_file(path): the content the file is rewritten with
sort_file(content) == WriteLines(Sorted(ReadLines(content)))

\* keyhash(key): int(md5(key).hexdigest(), 16), a 128-bit integer, kept as
\* its 16 base-256 digits, most significant first
keyhash(key) == MD5Digest(key)

\* a 128-bit integer modulo m
RECURSIVE ModDigits(_, _, _)
ModDigits(digits, m, acc) ==
    IF digits = <<>> THEN acc
    ELSE ModDigits(Tail(digits), m, (acc * 256 + Head(digits)) % m)

\* keyhash(key) % MAX_NUM_REDUCE for the key of a line
reducer_idx(line) ==
    LET key == PartitionTab(line)
    IN  ModDigits(keyhash(key), MAX_NUM_REDUCE, 0)

\* heapq.merge(*infiles): the index of the file whose pending line comes
\* next, the least pending line, the earlier file on a tie
MergeNext(files) ==
    CHOOSE j \in 1..Len(files) :
        /\ files[j].lines # <<>>
        /\ \A k \in 1..Len(files) :
              (k # j /\ files[k].lines # <<>>) =>
                  \/ StrLess(Head(files[j].lines), Head(files[k].lines))
                  \/ (Head(files[j].lines) = Head(files[k].lines) /\ j < k)

\* the merge loop of group_stage run to its end: outs[k] is what has been
\* written to the k-th output file
RECURSIVE MergeAll(_, _)
MergeAll(files, outs) ==
    IF \A k \in 1..Len(files) : files[k].lines = <<>> THEN outs
    ELSE LET j == MergeNext(files)
             line == Head(files[j].lines)
             nx == [outs EXCEPT ![reducer_idx(line) + 1] = @ \o line]
         IN  IF Len(nx) = MAX_NUM_REDUCE
             THEN MergeAll([files EXCEPT ![j].lines = Tail(@)], nx)
             ELSE outs

\* group_stage on mapper-output files of the given contents, in the order the
\* listing hands them out: the contents of the MAX_NUM_REDUCE output files
group_stage(contents) ==
    MergeAll([k \in 1..Len(contents) |->
                 [path |-> k, lines |-> ReadLines(sort_file(contents[k]))]],
             [k \in 1..MAX_NUM_REDUCE |-> <<>>])

\* subprocess.run(check=True) raises CalledProcessError on this status
TaskFailed(status) == status # 0

\* a group stage that returns one reducer per open output file but the last
GroupReturnOneLess(outs) == Len(outs) - 1

\* the value group_stage returns
GroupReturnValue(outs) == Len(outs)

\* an output check that never finds the output location
output_exists_never(dir) == FALSE

\* output_dir.exists()
output_exists(dir) == dir.exists

(***************************************************************************)
(* Directories: functions from file names to contents                      *)
(***************************************************************************)
EmptyDir == [name \in {} |-> <<>>]

\* the contents that a cut inside the Run item content[n + 1] leaves: the
\* items before it, then a shorter run (a set given by its members: a run
\* has too many cuts to list them)
RunCuts(content, n) ==
    IF n < Len(content) /\ IsRun(content[n + 1])
    THEN {p \in [1..(n + 1) -> Nat] :
             /\ \A i \in 1..n : p[i] = content[i]
             /\ p[n + 1] \in Run(1)..(content[n + 1] - 1)}
    ELSE {}

\* what a write that fails can leave of a content: any of its prefixes, byte
\* by byte; a cut inside a Run item leaves a shorter run
RECURSIVE PrefixesFrom(_, _)
PrefixesFrom(content, n) ==
    IF n > Len(content) THEN {}
    ELSE {SubSeq(content, 1, n)} \cup RunCuts(content, n)
           \cup PrefixesFrom(content, n + 1)

Prefixes(content) == PrefixesFrom(content, 0)

\* files opened for writing one after the other, when an open fails: the
\* first k of them are there, empty
CreatedEmpty(names) ==
    {[name \in {names[j] : j \in 1..k} |-> <<>>] : k \in 0..Len(names)}

\* files that are being written when a write, a flush or a close fails: each
\* holds a prefix of what was written to it
RECURSIVE PartialContents(_, _)
PartialContents(names, content_of) ==
    IF names = <<>> THEN {EmptyDir}
    ELSE {(Head(names) :> p) @@ rest :
             p \in Prefixes(content_of[Head(names)]),
             rest \in PartialContents(Tail(names), content_of)}

\* the orders in which a directory listing can hand out the members of S
Orderings(S) ==
    {o \in [1..Cardinality(S) -> S] :
        \A p, q \in 1..Cardinality(S) : p # q => o[p] # o[q]}

NoTmpdir ==
    [exists |-> FALSE, input |-> EmptyDir, mapper_output |-> EmptyDir,
     grouper_output |-> EmptyDir, reducer_output |-> EmptyDir]

NewTmpdir == [NoTmpdir EXCEPT !.exists = TRUE]

FileEntry(content) == [kind |-> "file", content |-> content]
SubdirEntry == [kind |-> "dir", content |-> <<>>]

SeqsUpTo(S, n) == UNION {[1..k -> S] : k \in 0..n}

(***************************************************************************)
(* Bounds and the inputs the runs are drawn from                           *)
(***************************************************************************)
MaxInputFiles == 2
MaxMapFiles == 2

\* an executable with the directive, and one with "#!/bin/sh"
GoodExe == Directive \o <<LF>>
BadExe == <<35, 33, 47, 98, 105, 110, 47, 115, 104, 10>>
\* the directive followed by a space
PaddedExe == Directive \o <<32, LF>>
ExeUniverse == {GoodExe, BadExe, PaddedExe}
\* the reduce executables of a whole run: once check_shebang has passed, the
\* first line of an executable plays no part
ReduceExeUniverse == {GoodExe, BadExe}

\* no output location, an empty one, one holding part-00000 = "old\n"
OutputDirUniverse ==
    {[exists |-> FALSE, files |-> EmptyDir, made |-> FALSE],
     [exists |-> TRUE, files |-> EmptyDir, made |-> FALSE],
     [exists |-> TRUE, files |-> (part_filename(0) :> <<111, 108, 100, 10>>),
      made |-> FALSE]}

\* input files of a whole run: "" and "a\n"
RunEntries == {FileEntry(<<>>), FileEntry(<<97, 10>>)}

InputDirUniverse ==
    {[kind |-> "absent", entries |-> <<>>], [kind |-> "file", entries |-> <<>>]}
      \cup {[kind |-> "dir", entries |-> es] : es \in SeqsUpTo(RunEntries, MaxInputFiles)}

\* what a map task of a whole run writes: "b\t\na\t\n"
MapOutputs == {<<98, 9, 10, 97, 9, 10>>}

\* what a reduce task may write: its input, or nothing
ReduceOutputs(stdin) == {stdin, <<>>}

ExitStatuses == {0, 1}

\* input files of the input preparer, by size s and threshold M:
\*   "" (s = 0), "a\nb\nc\n", "a\nb" (no final newline), "a\r\nb\r\n",
\*   x..x "\n" "b\n" (s = M), x..x "\n" "b\n" (s = M + 1),
\*   x..x "\n" "a\n" x..x "\n" "b\n" "c" (s = 2M + 7, five lines)
\*   x..x "\n" (s = M + 1, one line)
\* and a subdirectory
PrepareEntries ==
    {FileEntry(<<>>),
     FileEntry(<<97, 10, 98, 10, 99, 10>>),
     FileEntry(<<97, 10, 98>>),
     FileEntry(<<97, 13, 10, 98, 13, 10>>),
     FileEntry(<<Run(MAX_INPUT_SPLIT_SIZE - 3), 10, 98, 10>>),
     FileEntry(<<Run(MAX_INPUT_SPLIT_SIZE - 2), 10, 98, 10>>),
     FileEntry(<<Run(MAX_INPUT_SPLIT_SIZE), 10, 97, 10,
                 Run(MAX_INPUT_SPLIT_SIZE), 10, 98, 10, 99>>),
     FileEntry(<<Run(MAX_INPUT_SPLIT_SIZE), 10>>),
     SubdirEntry}

\* mapper-output files of the group stage:
\*   "", "b\t1\na\t1\n" (unsorted), "a\t1\na\t1\n" (a duplicate),
\*   "a\n" (no tab), "a\t1" (no final newline), "b\t1\na\t1" (both),
\*   "b\t1\n"
GroupInputs ==
    {<<>>,
     <<98, 9, 49, 10, 97, 9, 49, 10>>,
     <<97, 9, 49, 10, 97, 9, 49, 10>>,
     <<97, 10>>,
     <<97, 9, 49>>,
     <<98, 9, 49, 10, 97, 9, 49>>,
     <<98, 9, 49, 10>>}

(***************************************************************************)
(* State                                                                   *)
(***************************************************************************)
VARIABLES
    pc,          \* where mapreduce() is
    err,         \* the exception raised, "none" if none
    input_dir,   \* the input location: [kind, entries]
    output_dir,  \* the output location: [exists, files, made], made when
                 \* this run's output_dir.mkdir() has created it
    map_exe,     \* content of the map executable
    reduce_exe,  \* content of the reduce executable
    tmpdir,      \* the scratch workspace and its four directories
    filenames,   \* prepare_input_files: the input files still to copy
    part_num,    \* prepare_input_files: the next partition ordinal
    splits,      \* prepare_input_files: out_filenames of each file copied
    num_map,     \* the value prepare_input_files returned
    task_i,      \* map_stage, reduce_stage: the loop variable i
    sort_todo,   \* group_stage: mapper-output files still to sort
    infiles,     \* group_stage: the open input files and their pending lines
    outfiles,    \* group_stage: the open output files
    num_reduce,  \* the value group_stage returned
    stdout,      \* what was printed
    runs,        \* the subprocesses run: what each wrote, its exit status
    exe_reads,   \* the executables opened for reading
    call         \* a function called on its own: [fn, args, results]

vars ==
    <<pc, err, input_dir, output_dir, map_exe, reduce_exe, tmpdir, filenames,
      part_num, splits, num_map, task_i, sort_todo, infiles, outfiles,
      num_reduce, stdout, runs, exe_reads, call>>

\* what no step of mapreduce() changes
job == <<input_dir, map_exe, reduce_exe, call>>

\* no function is called on its own
NoCall == [fn |-> "none", args |-> <<>>, results |-> <<>>]
prepare_locals == <<filenames, part_num, splits>>
group_locals == <<sort_todo, infiles, outfiles>>

StageMsg(stage) == [kind |-> "stage", stage |-> stage, n |-> 0]
TaskMsg(stage, n) == [kind |-> "task", stage |-> stage, n |-> n]
OutputMsg == [kind |-> "output", stage |-> "", n |-> 0]

NoLocals ==
    /\ filenames = <<>>
    /\ part_num = 0
    /\ splits = <<>>
    /\ num_map = 0
    /\ task_i = 0
    /\ sort_todo = {}
    /\ infiles = <<>>
    /\ outfiles = <<>>
    /\ num_reduce = 0

\* mapreduce(input_dir, output_dir, map_exe, reduce_exe) is called
Init ==
    /\ pc = "start"
    /\ err = "none"
    /\ input_dir \in InputDirUniverse
    /\ output_dir \in OutputDirUniverse
    /\ map_exe \in ExeUniverse
    /\ reduce_exe \in ReduceExeUniverse
    /\ tmpdir = NoTmpdir
    /\ NoLocals
    /\ stdout = <<>>
    /\ runs = <<>>
    /\ exe_reads = <<>>
    /\ call = NoCall

(***************************************************************************)
(* mapreduce(): output check, directive checks, workspace                  *)
(***************************************************************************)
\* when output_dir.exists(), MadoopError is raised; else output_dir.mkdir()
\* (StageRaises has the exists() and the mkdir() that raise OSError)
CheckOutputDir ==
    /\ pc = "start"
    /\ IF output_exists(output_dir)
       THEN /\ err' = "MadoopError"
            /\ pc' = "raised"
            /\ UNCHANGED output_dir
       ELSE /\ output_dir' = [exists |-> TRUE, files |-> EmptyDir, made |-> TRUE]
            /\ pc' = "check_map_exe"
            /\ UNCHANGED err
    /\ UNCHANGED <<job, tmpdir, prepare_locals, num_map, task_i, group_locals,
                   num_reduce, stdout, runs, exe_reads>>

\* check_shebang(map_exe)
CheckMapExe ==
    /\ pc = "check_map_exe"
    /\ exe_reads' = Append(exe_reads, "map_exe")
    /\ IF check_shebang(map_exe)
       THEN pc' = "check_reduce_exe" /\ UNCHANGED err
       ELSE pc' = "raised" /\ err' = "MadoopError"
    /\ UNCHANGED <<job, output_dir, tmpdir, prepare_locals, num_map, task_i,
                   group_locals, num_reduce, stdout, runs>>

\* check_shebang(reduce_exe)
CheckReduceExe ==
    /\ pc = "check_reduce_exe"
    /\ exe_reads' = Append(exe_reads, "reduce_exe")
    /\ IF check_shebang(reduce_exe)
       THEN pc' = "mkdtemp" /\ UNCHANGED err
       ELSE pc' = "raised" /\ err' = "MadoopError"
    /\ UNCHANGED <<job, output_dir, tmpdir, prepare_locals, num_map, task_i,
                   group_locals, num_reduce, stdout, runs>>

\* tempfile.TemporaryDirectory() is entered and the four directories made
MakeTmpdir ==
    /\ pc = "mkdtemp"
    /\ tmpdir' = NewTmpdir
    /\ pc' = "prepare"
    /\ UNCHANGED <<err, job, output_dir, prepare_locals, num_map, task_i,
                   group_locals, num_reduce, stdout, runs, exe_reads>>

(***************************************************************************)
(* prepare_input_files(input_dir, map_input_dir)                           *)
(***************************************************************************)
\* the assertion, and the glob that lists the entries that are no directory
PrepareBegin ==
    /\ pc = "prepare"
    /\ IF input_dir.kind # "dir"
       THEN /\ err' = "AssertionError"
            /\ pc' = "cleanup"
            /\ UNCHANGED prepare_locals
       ELSE /\ \E order \in Orderings({e \in 1..Len(input_dir.entries) :
                                          input_dir.entries[e].kind # "dir"}) :
                  filenames' = order
            /\ part_num' = 0
            /\ pc' = "prepare_loop"
            /\ UNCHANGED <<err, splits>>
    /\ UNCHANGED <<job, output_dir, tmpdir, num_map, task_i, group_locals,
                   num_reduce, stdout, runs, exe_reads>>

\* out_filenames: the names of the num_split partitions from ordinal first on
OutFilenames(first, num_split) ==
    [k \in 1..num_split |-> part_filename(first + k - 1)]

\* what the loop over the lines of a file writes to each of its out_files
SplitWritten(content, first) ==
    LET num_split == NumSplit(st_size(content))
        lines == ReadLines(content)
        out_filenames == OutFilenames(first, num_split)
    IN  [name \in {out_filenames[k] : k \in 1..num_split} |->
            LET k == CHOOSE k \in 1..num_split : out_filenames[k] = name
            IN  WriteLines(SplitPart(lines, k - 1, num_split))]

\* one turn of the loop over filenames: the file is read line by line and
\* line i is written to out_files[i % num_split]
PrepareFile ==
    /\ pc = "prepare_loop"
    /\ filenames # <<>>
    /\ LET content == input_dir.entries[Head(filenames)].content
           num_split == NumSplit(st_size(content))
       IN  /\ tmpdir' = [tmpdir EXCEPT !.input = SplitWritten(content, part_num) @@ @]
           /\ splits' = Append(splits, [file |-> Head(filenames),
                                        first |-> part_num,
                                        num_split |-> num_split])
           /\ part_num' = NextPartNum(part_num, num_split)
    /\ filenames' = Tail(filenames)
    /\ UNCHANGED <<pc, err, job, output_dir, num_map, task_i, group_locals,
                   num_reduce, stdout, runs, exe_reads>>

\* return part_num; mapreduce() announces the map stage
PrepareReturn ==
    /\ pc = "prepare_loop"
    /\ filenames = <<>>
    /\ num_map' = part_num
    /\ task_i' = 0
    /\ stdout' = Append(stdout, StageMsg("map"))
    /\ pc' = "map"
    /\ UNCHANGED <<err, job, output_dir, tmpdir, prepare_locals, group_locals,
                   num_reduce, runs, exe_reads>>

(***************************************************************************)
(* map_stage(exe, input_dir, output_dir, num_map)                          *)
(***************************************************************************)
\* one map task: the executable runs on partition i and exits
MapTask ==
    /\ pc = "map"
    /\ task_i < num_map
    /\ stdout' = Append(stdout, TaskMsg("map", task_i))
    /\ IF part_filename(task_i) \notin DOMAIN tmpdir.input
       THEN /\ err' = "FileNotFoundError"
            /\ pc' = "cleanup"
            /\ UNCHANGED <<tmpdir, runs, task_i>>
       ELSE \E out \in MapOutputs, status \in ExitStatuses :
            /\ tmpdir' = [tmpdir EXCEPT !.mapper_output =
                             (part_filename(task_i) :> out) @@ @]
            /\ runs' = Append(runs, [stage |-> "map", n |-> task_i,
                                     out |-> out, status |-> status])
            /\ IF TaskFailed(status)
               THEN err' = "MadoopError" /\ pc' = "cleanup" /\ UNCHANGED task_i
               ELSE task_i' = task_i + 1 /\ UNCHANGED <<pc, err>>
    /\ UNCHANGED <<job, output_dir, prepare_locals, num_map, group_locals,
                   num_reduce, exe_reads>>

\* a loop that is left after its first turn
LoopEndsEarly(i, n) == i >= 1 \/ i = n

\* for i in range(n): the loop is over
LoopEnds(i, n) == i = n

\* map_stage returns; mapreduce() announces the group stage and group_stage
\* starts its first pass over input_dir.iterdir()
MapReturn ==
    /\ pc = "map"
    /\ LoopEnds(task_i, num_map)
    /\ stdout' = Append(stdout, StageMsg("group"))
    /\ sort_todo' = DOMAIN tmpdir.mapper_output
    /\ pc' = "group_sort"
    /\ UNCHANGED <<err, job, output_dir, tmpdir, prepare_locals, num_map,
                   task_i, infiles, outfiles, num_reduce, runs, exe_reads>>

(***************************************************************************)
(* group_stage(input_dir, output_dir)                                      *)
(***************************************************************************)
\* sort_file(path) for the next path of the listing
GroupSortFile ==
    /\ pc = "group_sort"
    /\ \E path \in sort_todo :
          /\ tmpdir' = [tmpdir EXCEPT !.mapper_output[path] = sort_file(@)]
          /\ sort_todo' = sort_todo \ {path}
    /\ UNCHANGED <<pc, err, job, output_dir, prepare_locals, num_map, task_i,
                   infiles, outfiles, num_reduce, stdout, runs, exe_reads>>

\* the input files are opened in the order of a second listing, and the
\* MAX_NUM_REDUCE output files are opened for writing
GroupOpen ==
    /\ pc = "group_sort"
    /\ sort_todo = {}
    /\ \E order \in Orderings(DOMAIN tmpdir.mapper_output) :
          infiles' = [k \in 1..Len(order) |->
                         [path |-> order[k],
                          lines |-> ReadLines(tmpdir.mapper_output[order[k]])]]
    /\ outfiles' = [k \in 1..MAX_NUM_REDUCE |-> part_filename(k - 1)]
    /\ tmpdir' = [tmpdir EXCEPT !.grouper_output =
                     [name \in {part_filename(k) : k \in 0..(MAX_NUM_REDUCE - 1)}
                        |-> <<>>] @@ @]
    /\ pc' = "group_merge"
    /\ UNCHANGED <<err, job, output_dir, prepare_locals, num_map, task_i,
                   sort_todo, num_reduce, stdout, runs, exe_reads>>

\* one turn of the loop over heapq.merge(*infiles): the least pending line
\* is written to outfiles[keyhash(key) % MAX_NUM_REDUCE]; or that write fails
\* (OSError) and each output file is left with a part of what was written to
\* it, the line being written included
GroupMergeLine ==
    /\ pc = "group_merge"
    /\ \E k \in 1..Len(infiles) : infiles[k].lines # <<>>
    /\ LET j == MergeNext(infiles)
           line == Head(infiles[j].lines)
       IN  \E outpath \in {outfiles[reducer_idx(line) + 1]} :
              LET written == [tmpdir.grouper_output EXCEPT ![outpath] = @ \o line]
              IN  \/ /\ tmpdir' = [tmpdir EXCEPT !.grouper_output = written]
                     /\ infiles' = [infiles EXCEPT ![j].lines = Tail(@)]
                     /\ UNCHANGED <<pc, err>>
                  \/ /\ \E d \in PartialContents(outfiles, written) :
                            tmpdir' = [tmpdir EXCEPT !.grouper_output = d]
                     /\ err' = "OSError"
                     /\ pc' = "cleanup"
                     /\ UNCHANGED infiles
    /\ UNCHANGED <<job, output_dir, prepare_locals, num_map, task_i,
                   sort_todo, outfiles, num_reduce, stdout, runs, exe_reads>>

\* the merge is exhausted, the files are closed, group_stage returns
\* len(outfiles); mapreduce() announces the reduce stage
GroupReturn ==
    /\ pc = "group_merge"
    /\ \A k \in 1..Len(infiles) : infiles[k].lines = <<>>
    /\ num_reduce' = GroupReturnValue(outfiles)
    /\ infiles' = <<>>
    /\ outfiles' = <<>>
    /\ task_i' = 0
    /\ stdout' = Append(stdout, StageMsg("reduce"))
    /\ pc' = "reduce"
    /\ UNCHANGED <<err, job, output_dir, tmpdir, prepare_locals, num_map,
                   sort_todo, runs, exe_reads>>

(***************************************************************************)
(* reduce_stage(exe, input_dir, output_dir, num_reduce)                    *)
(***************************************************************************)
\* one reduce task: the executable runs on partition i and exits
ReduceTask ==
    /\ pc = "reduce"
    /\ task_i < num_reduce
    /\ stdout' = Append(stdout, TaskMsg("reduce", task_i))
    /\ IF part_filename(task_i) \notin DOMAIN tmpdir.grouper_output
       THEN /\ err' = "FileNotFoundError"
            /\ pc' = "cleanup"
            /\ UNCHANGED <<tmpdir, runs, task_i>>
       ELSE \E out \in ReduceOutputs(tmpdir.grouper_output[part_filename(task_i)]),
               status \in ExitStatuses :
            /\ tmpdir' = [tmpdir EXCEPT !.reducer_output =
                             (part_filename(task_i) :> out) @@ @]
            /\ runs' = Append(runs, [stage |-> "reduce", n |-> task_i,
                                     out |-> out, status |-> status])
            /\ IF TaskFailed(status)
               THEN err' = "MadoopError" /\ pc' = "cleanup" /\ UNCHANGED task_i
               ELSE task_i' = task_i + 1 /\ UNCHANGED <<pc, err>>
    /\ UNCHANGED <<job, output_dir, prepare_locals, num_map, group_locals,
                   num_reduce, exe_reads>>

\* reduce_stage returns
ReduceReturn ==
    /\ pc = "reduce"
    /\ task_i = num_reduce
    /\ pc' = "copy"
    /\ UNCHANGED <<err, job, output_dir, tmpdir, prepare_locals, num_map,
                   task_i, group_locals, num_reduce, stdout, runs, exe_reads>>

(***************************************************************************)
(* mapreduce(): results, cleanup                                           *)
(***************************************************************************)
\* a copy that gives the file a new name: "o" before the source's name
CopyTargetRenamed(name) == <<111>> \o name

\* shutil.copy(filename, output_dir): the file keeps its name
CopyTarget(name) == name

\* the files of reduce_output_dir the loop has still to copy
CopyTodo ==
    {name \in DOMAIN tmpdir.reducer_output :
        CopyTarget(name) \notin DOMAIN output_dir.files}

\* one turn of the loop over reduce_output_dir.glob("*"): shutil.copy of the
\* next file of the listing into output_dir
CopyResults ==
    /\ pc = "copy"
    /\ \E name \in CopyTodo :
          output_dir' = [output_dir EXCEPT !.files =
                            (CopyTarget(name) :> tmpdir.reducer_output[name]) @@ @]
    /\ UNCHANGED <<pc, err, job, tmpdir, prepare_locals, num_map, task_i,
                   group_locals, num_reduce, stdout, runs, exe_reads>>

\* the loop over reduce_output_dir.glob("*") ends
CopyReturn ==
    /\ pc = "copy"
    /\ CopyTodo = {}
    /\ pc' = "cleanup"
    /\ UNCHANGED <<err, job, output_dir, tmpdir, prepare_locals, num_map,
                   task_i, group_locals, num_reduce, stdout, runs, exe_reads>>

\* a task whose files cannot be opened, or whose subprocess cannot be
\* started: the directory of its output file is as it was, or, when the
\* input file was opened, holds the output file, empty
TaskOpenOutcomes(inputs, outputs) ==
    {outputs}
      \cup (IF part_filename(task_i) \in DOMAIN inputs
            THEN {(part_filename(task_i) :> <<>>) @@ outputs}
            ELSE {})

\* the output location, the workspace and the lines printed that a failing
\* file operation or a failing print can leave, by the place where it fails:
\*   output_dir.exists(), output_dir.mkdir(), the open of check_shebang,
\*     mkdtemp, is_dir() and
\*     the glob of prepare_input_files, the print that announces a stage:
\*     nothing is changed;
\*   the mkdir of a directory of the workspace: the workspace is there;
\*   prepare_input_files: some partitions of the file being copied are
\*     created, or all are and each holds a part of its lines;
\*   map_stage, reduce_stage: the print of the task fails, or the task is
\*     announced and its output file is created or not;
\*   sort_file: the file is as it was, or rewritten in part;
\*   group_stage opening its files: some output files are created;
\*   the merge, between two writes or when the files are closed: each
\*     output file holds a part of what was written to it (GroupMergeLine
\*     has the write that fails on the line being written);
\*   the copy: nothing is copied, or the target holds a part of the source
FailureOutcomes ==
    IF pc \in {"start", "check_map_exe", "check_reduce_exe", "prepare"}
    THEN {<<output_dir, tmpdir, stdout>>}
    ELSE IF pc = "mkdtemp"
    THEN {<<output_dir, tmpdir, stdout>>, <<output_dir, NewTmpdir, stdout>>}
    ELSE IF pc = "prepare_loop" /\ filenames # <<>>
    THEN LET content == input_dir.entries[Head(filenames)].content
             names == OutFilenames(part_num, NumSplit(st_size(content)))
         IN  {<<output_dir, [tmpdir EXCEPT !.input = d @@ @], stdout>> :
                 d \in CreatedEmpty(names)
                         \cup PartialContents(names, SplitWritten(content, part_num))}
    ELSE IF pc = "prepare_loop"
    THEN {<<output_dir, tmpdir, stdout>>}
    ELSE IF pc = "map" /\ task_i < num_map
    THEN {<<output_dir, tmpdir, stdout>>}
           \cup {<<output_dir, [tmpdir EXCEPT !.mapper_output = d],
                   Append(stdout, TaskMsg("map", task_i))>> :
                    d \in TaskOpenOutcomes(tmpdir.input, tmpdir.mapper_output)}
    ELSE IF pc = "map"
    THEN {<<output_dir, tmpdir, stdout>>}
    ELSE IF pc = "group_sort" /\ sort_todo # {}
    THEN {<<output_dir, tmpdir, stdout>>}
           \cup {<<output_dir, [tmpdir EXCEPT !.mapper_output[q[1]] = q[2]], stdout>> :
                    q \in UNION {{<<path, p>> :
                                    p \in Prefixes(sort_file(tmpdir.mapper_output[path]))} :
                                 path \in sort_todo}}
    ELSE IF pc = "group_sort"
    THEN {<<output_dir, [tmpdir EXCEPT !.grouper_output = d @@ @], stdout>> :
             d \in CreatedEmpty([k \in 1..MAX_NUM_REDUCE |-> part_filename(k - 1)])}
    ELSE IF pc = "group_merge"
    THEN {<<output_dir, [tmpdir EXCEPT !.grouper_output = d], stdout>> :
             d \in PartialContents(outfiles, tmpdir.grouper_output)}
    ELSE IF pc = "reduce"
    THEN {<<output_dir, tmpdir, stdout>>}
           \cup {<<output_dir, [tmpdir EXCEPT !.reducer_output = d],
                   Append(stdout, TaskMsg("reduce", task_i))>> :
                    d \in TaskOpenOutcomes(tmpdir.grouper_output, tmpdir.reducer_output)}
    ELSE {<<output_dir, tmpdir, stdout>>}
           \cup {<<[output_dir EXCEPT !.files = (CopyTarget(q[1]) :> q[2]) @@ @],
                   tmpdir, stdout>> :
                    q \in UNION {{<<name, p>> :
                                    p \in Prefixes(tmpdir.reducer_output[name])} :
                                 name \in CopyTodo}}

\* a file operation or a print of mapreduce() or of one of its stages fails
\* (OSError), leaving what it had written; outside the with block the
\* exception leaves mapreduce() at once, inside it the block is left first
StageRaises ==
    /\ \/ pc \in {"start", "check_map_exe", "check_reduce_exe", "mkdtemp", "prepare",
                  "prepare_loop", "map", "group_sort", "group_merge", "copy"}
       \/ pc = "reduce" /\ task_i < num_reduce
    /\ \E outcome \in FailureOutcomes :
          /\ output_dir' = outcome[1]
          /\ tmpdir' = outcome[2]
          /\ stdout' = outcome[3]
          /\ pc' = IF outcome[2].exists THEN "cleanup" ELSE "raised"
    /\ err' = "OSError"
    /\ UNCHANGED <<job, prepare_locals, num_map, task_i, group_locals,
                   num_reduce, runs, exe_reads>>

\* the files of a directory that a removal has not reached
Kept(dir, names) == [name \in names |-> dir[name]]

\* a directory as a removal can leave it: with any of its files
Remainders(dir) == {Kept(dir, names) : names \in SUBSET DOMAIN dir}

\* a directory the removal has not entered, or one it has emptied
Untouched(dir) == {dir, EmptyDir}

\* what a recursive removal that fails leaves of the workspace: the workspace
\* still exists; the removal takes the entries in the order of the listings
\* and stops at the first that fails, so the directories it has done are
\* gone or empty, the one it was in holds the files it had not reached, and
\* the others are whole
RmtreeLeftovers(t) ==
    [exists : {TRUE},
     input : Remainders(t.input),
     mapper_output : Untouched(t.mapper_output),
     grouper_output : Untouched(t.grouper_output),
     reducer_output : Untouched(t.reducer_output)]
      \cup [exists : {TRUE},
            input : Untouched(t.input),
            mapper_output : Remainders(t.mapper_output),
            grouper_output : Untouched(t.grouper_output),
            reducer_output : Untouched(t.reducer_output)]
      \cup [exists : {TRUE},
            input : Untouched(t.input),
            mapper_output : Untouched(t.mapper_output),
            grouper_output : Remainders(t.grouper_output),
            reducer_output : Untouched(t.reducer_output)]
      \cup [exists : {TRUE},
            input : Untouched(t.input),
            mapper_output : Untouched(t.mapper_output),
            grouper_output : Untouched(t.grouper_output),
            reducer_output : Remainders(t.reducer_output)]

\* what leaving the with block makes of the workspace: TemporaryDirectory
\* removes it, or its recursive removal fails and raises OSError
TmpdirAfterExit(t) == {NoTmpdir} \cup RmtreeLeftovers(t)

\* the with block is left, by its end or by an exception.  When the workspace
\* is removed, the exception goes on; without one the output directory is
\* announced, unless that print fails.  When the removal fails, its OSError is
\* what mapreduce() raises.
Cleanup ==
    /\ pc = "cleanup"
    /\ filenames' = <<>>
    /\ part_num' = 0
    /\ num_map' = 0
    /\ task_i' = 0
    /\ sort_todo' = {}
    /\ infiles' = <<>>
    /\ outfiles' = <<>>
    /\ num_reduce' = 0
    /\ \E t \in TmpdirAfterExit(tmpdir) :
          /\ tmpdir' = t
          /\ IF t.exists
             THEN pc' = "raised" /\ err' = "OSError" /\ UNCHANGED stdout
             ELSE IF err # "none"
             THEN pc' = "raised" /\ UNCHANGED <<err, stdout>>
             ELSE \/ /\ pc' = "done"
                     /\ stdout' = Append(stdout, OutputMsg)
                     /\ UNCHANGED err
                  \/ pc' = "raised" /\ err' = "OSError" /\ UNCHANGED stdout
    /\ UNCHANGED <<job, output_dir, splits, runs, exe_reads>>

Next ==
    \/ CheckOutputDir
    \/ CheckMapExe
    \/ CheckReduceExe
    \/ MakeTmpdir
    \/ PrepareBegin
    \/ PrepareFile
    \/ PrepareReturn
    \/ MapTask
    \/ MapReturn
    \/ GroupSortFile
    \/ GroupOpen
    \/ GroupMergeLine
    \/ GroupReturn
    \/ ReduceTask
    \/ ReduceReturn
    \/ CopyResults
    \/ CopyReturn
    \/ StageRaises
    \/ Cleanup

Spec == Init /\ [][Next]_vars

(***************************************************************************)
(* The input preparer alone: mapreduce() has made the workspace and calls  *)
(* prepare_input_files on an input location of any shape.                  *)
(***************************************************************************)
PrepareDirUniverse ==
    {[kind |-> "absent", entries |-> <<>>], [kind |-> "file", entries |-> <<>>]}
      \cup {[kind |-> "dir", entries |-> es] :
              es \in SeqsUpTo(PrepareEntries, MaxInputFiles)}

InitPrepare ==
    /\ pc = "prepare"
    /\ err = "none"
    /\ input_dir \in PrepareDirUniverse
    /\ output_dir = [exists |-> TRUE, files |-> EmptyDir, made |-> TRUE]
    /\ map_exe = GoodExe
    /\ reduce_exe = GoodExe
    /\ tmpdir = NewTmpdir
    /\ NoLocals
    /\ stdout = <<>>
    /\ runs = <<>>
    /\ exe_reads = <<"map_exe", "reduce_exe">>
    /\ call = NoCall

NextPrepare ==
    \/ PrepareBegin
    \/ PrepareFile
    \/ PrepareReturn

SpecPrepare == InitPrepare /\ [][NextPrepare]_vars

(***************************************************************************)
(* The group stage alone: n map tasks have run on one-line partitions and  *)
(* have written any of the mapper-output files; group_stage is called.     *)
(***************************************************************************)
OneLine == <<120, 10>>

InitGroup ==
    \E n \in 0..MaxMapFiles :
    \E written \in [0..(n - 1) -> GroupInputs] :
        /\ pc = "group_sort"
        /\ err = "none"
        /\ input_dir = [kind |-> "dir", entries |-> [k \in 1..n |-> FileEntry(OneLine)]]
        /\ output_dir = [exists |-> TRUE, files |-> EmptyDir, made |-> TRUE]
        /\ map_exe = GoodExe
        /\ reduce_exe = GoodExe
        /\ tmpdir = [NewTmpdir EXCEPT
                       !.input = [name \in {part_filename(k) : k \in 0..(n - 1)}
                                    |-> OneLine],
                       !.mapper_output =
                           [name \in {part_filename(k) : k \in 0..(n - 1)} |->
                               written[CHOOSE k \in 0..(n - 1) : part_filename(k) = name]]]
        /\ filenames = <<>>
        /\ part_num = n
        /\ splits = [k \in 1..n |-> [file |-> k, first |-> k - 1, num_split |-> 1]]
        /\ num_map = n
        /\ task_i = n
        /\ sort_todo = {part_filename(k) : k \in 0..(n - 1)}
        /\ infiles = <<>>
        /\ outfiles = <<>>
        /\ num_reduce = 0
        /\ stdout = <<StageMsg("map")>> \o [k \in 1..n |-> TaskMsg("map", k - 1)]
                       \o <<StageMsg("group")>>
        /\ runs = [k \in 1..n |-> [stage |-> "map", n |-> k - 1,
                                   out |-> written[k - 1], status |-> 0]]
        /\ exe_reads = <<"map_exe", "reduce_exe">>
        /\ call = NoCall

NextGroup ==
    \/ GroupSortFile
    \/ GroupOpen
    \/ GroupMergeLine
    \/ GroupReturn

SpecGroup == InitGroup /\ [][NextGroup]_vars

(***************************************************************************)
(* What the claims speak of                                                *)
(***************************************************************************)
Range(seq) == {seq[k] : k \in 1..Len(seq)}

Count(line, lines) == Cardinality({k \in 1..Len(lines) : lines[k] = line})

IsSorted(lines) ==
    \A k \in 1..(Len(lines) - 1) : StrLeq(lines[k], lines[k + 1])

RECURSIVE IsSubsequence(_, _)
IsSubsequence(a, b) ==
    IF a = <<>> THEN TRUE
    ELSE IF b = <<>> THEN FALSE
    ELSE IF Head(a) = Head(b) THEN IsSubsequence(Tail(a), Tail(b))
    ELSE IsSubsequence(a, Tail(b))

Ordinals(n) == 0..(n - 1)

\* the lines the map tasks wrote, file after file
MapperOutputLines ==
    Concat([k \in 1..Len(runs) |->
              IF runs[k].stage = "map" THEN ReadLines(runs[k].out) ELSE <<>>])

\* the lines of reducer-input file k
ReducerInputLines(k) ==
    IF part_filename(k) \in DOMAIN tmpdir.grouper_output
    THEN ReadLines(tmpdir.grouper_output[part_filename(k)])
    ELSE <<>>

AllReducerInputLines ==
    Concat([k \in 1..MAX_NUM_REDUCE |-> ReducerInputLines(k - 1)])

\* group_stage has returned
GroupDone == pc = "reduce" /\ err = "none"

\* C1 (key-locality): once group_stage has returned, every line the map
\* tasks wrote is a line of the reducer-input file whose ordinal is
\* keyhash(key) mod MAX_NUM_REDUCE, key being the text before the line's
\* first tab, and of no other reducer-input file.
C1_KeyLocality ==
    GroupDone =>
        \A line \in Range(MapperOutputLines) :
            \A k \in Ordinals(MAX_NUM_REDUCE) :
                (line \in Range(ReducerInputLines(k))) <=> (k = reducer_idx(line))

\* C2 (order within partition): once group_stage has returned, the lines of
\* every reducer-input file are in non-decreasing order and form a
\* subsequence of the sorted sequence of all the lines the map tasks wrote.
C2_OrderWithinPartition ==
    GroupDone =>
        \A k \in Ordinals(MAX_NUM_REDUCE) :
            /\ IsSorted(ReducerInputLines(k))
            /\ IsSubsequence(ReducerInputLines(k), Sorted(MapperOutputLines))

\* C3 (conservation in the shuffle): once group_stage has returned, the
\* reducer-input files hold as many lines as the map tasks wrote, and every
\* line as many times as it was written.
C3_Conservation ==
    GroupDone =>
        /\ Len(AllReducerInputLines) = Len(MapperOutputLines)
        /\ \A line \in Range(MapperOutputLines) \cup Range(AllReducerInputLines) :
              Count(line, AllReducerInputLines) = Count(line, MapperOutputLines)

\* prepare_input_files has returned
PrepareDone == pc = "map" /\ err = "none"

\* the entries of the input directory that are no directory
RegularFiles ==
    {e \in 1..Len(input_dir.entries) : input_dir.entries[e].kind # "dir"}

\* the ordinals of the partitions made for the k-th file copied
SplitOrdinals(k) == {splits[k].first + j : j \in 0..(splits[k].num_split - 1)}

PartitionNames == DOMAIN tmpdir.input

\* the lines of the partition of ordinal o, as a text-mode reader yields them
PartitionLines(o) ==
    IF part_filename(o) \in PartitionNames
    THEN ReadLines(tmpdir.input[part_filename(o)])
    ELSE <<>>

\* the partitions of the s-th file copied put back together: their lines
\* taken in turn, one from each partition, from the first ordinal on
Reassembled(s) ==
    LET b == splits[s].first
        k == splits[s].num_split
        n == SumSeq([j \in 1..k |-> Len(PartitionLines(b + j - 1))])
    IN  Concat([i \in 1..n |-> PartitionLines(b + ((i - 1) % k))[((i - 1) \div k) + 1]])

\* C4 (lossless input splitting): once prepare_input_files has returned,
\* the partitions of every regular input file, put back together, are the
\* bytes of the file, whole and unchanged; the bytes of all partitions are as
\* many as the bytes of the input; every partition belongs to exactly one of
\* the files copied.
C4_LosslessSplit ==
    PrepareDone =>
        /\ \A s \in 1..Len(splits) :
              Reassembled(s) = input_dir.entries[splits[s].file].content
        /\ SumSeq([k \in 1..part_num |-> st_size(tmpdir.input[part_filename(k - 1)])])
             = SumSeq([e \in 1..Len(input_dir.entries) |->
                         st_size(input_dir.entries[e].content)])
        /\ \A name \in PartitionNames :
              Cardinality({s \in 1..Len(splits) :
                             \E o \in SplitOrdinals(s) : part_filename(o) = name}) = 1

\* C9 (partition count per input file): once prepare_input_files has
\* returned, a regular input file of at most MAX_INPUT_SPLIT_SIZE bytes has
\* exactly one partition and a larger one has two or more.
C9_PartitionCount ==
    PrepareDone =>
        \A k \in 1..Len(splits) :
            LET size == st_size(input_dir.entries[splits[k].file].content)
                made == {o \in SplitOrdinals(k) : part_filename(o) \in PartitionNames}
            IN  /\ size <= MAX_INPUT_SPLIT_SIZE => Cardinality(made) = 1
                /\ size > MAX_INPUT_SPLIT_SIZE => Cardinality(made) >= 2

\* mapreduce() has returned or raised
Returned == pc \in {"done", "raised"}

\* in the claims' terms: the bytes of the file up to its first line feed,
\* or all of them when it has none, are the directive
FirstLineIsDirective(exe) ==
    \/ exe = Directive
    \/ /\ Len(exe) > Len(Directive)
       /\ SubSeq(exe, 1, Len(Directive) + 1) = Directive \o <<LF>>

\* the runs of one stage
StageRuns(stage) == SelectSeq(runs, LAMBDA r : r.stage = stage)

\* C5 (non-clobbering output), as the claim states it: a call that finds the
\* output location raises MadoopError in its first step and leaves the
\* output location as it was, with no workspace made, no executable read, no
\* subprocess run and nothing printed; nothing happens after mapreduce() has
\* raised.
C5_NonClobbering ==
    [][/\ (pc = "start" /\ output_dir.exists) =>
              /\ pc' = "raised"
              /\ err' = "MadoopError"
              /\ output_dir' = output_dir
              /\ tmpdir' = NoTmpdir
              /\ exe_reads' = <<>>
              /\ runs' = <<>>
              /\ stdout' = <<>>
       /\ pc = "raised" => UNCHANGED vars]_vars

\* C5 (non-clobbering output), amended: a call that finds the output location
\* is rejected in its first step, with MadoopError, or with the OSError of
\* output_dir.exists() when the location cannot be examined; either way the
\* output location is left as it was, with no workspace made, no executable
\* read, no subprocess run and nothing printed, and nothing happens after
\* mapreduce() has raised.
C5_Rejected ==
    [][/\ (pc = "start" /\ output_dir.exists) =>
              /\ pc' = "raised"
              /\ err' \in {"MadoopError", "OSError"}
              /\ output_dir' = output_dir
              /\ tmpdir' = NoTmpdir
              /\ exe_reads' = <<>>
              /\ runs' = <<>>
              /\ stdout' = <<>>
       /\ pc = "raised" => UNCHANGED vars]_vars

\* the call was rejected and the old part-00000 is still there
C5_Witness ==
    /\ pc = "raised"
    /\ err = "MadoopError"
    /\ exe_reads = <<>>
    /\ output_dir.exists
    /\ part_filename(0) \in DOMAIN output_dir.files

\* C6 (workspace cleanup): when mapreduce() has returned or raised, the
\* scratch workspace does not exist, whichever way the run ended.
C6_WorkspaceCleanup == Returned => tmpdir = NoTmpdir

\* C7 (fail-fast): a map task that exited with a non-zero status is the
\* last subprocess of the run and the last thing announced; the run aborts
\* with MadoopError, which leaves map_stage and the with block and is what
\* mapreduce() raises; neither the group stage nor the reduce stage starts.
C7_FailFast ==
    \A k \in 1..Len(runs) :
        (runs[k].stage = "map" /\ runs[k].status # 0) =>
            /\ k = Len(runs)
            /\ pc \in {"cleanup", "raised"}
            /\ err = "MadoopError"
            /\ stdout[Len(stdout)] = TaskMsg("map", runs[k].n)
            /\ StageMsg("group") \notin Range(stdout)
            /\ StageMsg("reduce") \notin Range(stdout)
            /\ DOMAIN tmpdir.grouper_output = {}

\* C8 (validation precedes execution): when the first line of the map or of
\* the reduce executable is not the directive, no subprocess is ever run and
\* the run never completes; once check_shebang has read the executable whose
\* first line is wrong the run has raised MadoopError, a run that raised
\* without a file operation failing raised MadoopError, and an output
\* location the run has made holds no file.
C8_ValidationFirst ==
    (~FirstLineIsDirective(map_exe) \/ ~FirstLineIsDirective(reduce_exe)) =>
        /\ runs = <<>>
        /\ pc # "done"
        /\ \/ "map_exe" \in Range(exe_reads) /\ ~FirstLineIsDirective(map_exe)
           \/ "reduce_exe" \in Range(exe_reads) /\ ~FirstLineIsDirective(reduce_exe)
           => pc = "raised" /\ err = "MadoopError"
        /\ (pc = "raised" /\ err # "OSError") => err = "MadoopError"
        /\ exe_reads # <<>> => DOMAIN output_dir.files = {}

\* C10 (fixed reducer count): once group_stage has returned it has made
\* exactly the reducer-input files of ordinals 0 .. MAX_NUM_REDUCE - 1 and
\* returned MAX_NUM_REDUCE, all the files empty when there was no
\* mapper-output file; reduce_stage runs one task per file, in order, never
\* misses an input file, and has run MAX_NUM_REDUCE tasks when it returns.
C10_FixedReducerCount ==
    /\ err # "FileNotFoundError"
    /\ pc \in {"reduce", "copy"} =>
          /\ num_reduce = MAX_NUM_REDUCE
          /\ DOMAIN tmpdir.grouper_output
               = {part_filename(k) : k \in Ordinals(MAX_NUM_REDUCE)}
          /\ DOMAIN tmpdir.mapper_output = {} =>
                \A k \in Ordinals(MAX_NUM_REDUCE) :
                    tmpdir.grouper_output[part_filename(k)] = <<>>
          /\ LET done == StageRuns("reduce")
             IN  /\ Len(done) = task_i
                 /\ \A k \in 1..Len(done) : done[k].n = k - 1
                 /\ pc = "copy" => Len(done) = MAX_NUM_REDUCE

\* no input file, no map task, and all four reduce tasks have run
C10_Witness ==
    /\ pc = "copy"
    /\ num_map = 0
    /\ DOMAIN tmpdir.mapper_output = {}
    /\ Len(StageRuns("reduce")) = MAX_NUM_REDUCE

\* the run failed on the input location: the assertion of prepare_input_files
InputRefused == input_dir.kind # "dir" /\ err = "AssertionError"

\* C11 (input precondition error): when the input location is absent or is
\* no directory, the run never completes, no stage is announced, no
\* subprocess runs, no partition file is made, and once the run has failed
\* on the input location the output location does not exist.
C11_InputPrecondition ==
    /\ input_dir.kind # "dir" =>
          /\ pc # "done"
          /\ runs = <<>>
          /\ stdout = <<>>
          /\ DOMAIN tmpdir.input = {}
    /\ InputRefused => ~output_dir.exists

\* the run has made its output location: output_dir.mkdir() has been run
OutputMade == output_dir.made

\* the run failed on a directive, on the input location or on a task
FailedRun == err \in {"MadoopError", "AssertionError"}

\* C12 (no partial results): a file is in the output location the run made
\* only when every map task and all the reduce tasks have exited with
\* status 0; a run that failed on a directive, on the input location, on a
\* map task or on a reduce task leaves no file there; a run that succeeded
\* leaves one file per reduce task, under the name and with the content of
\* the task's output file.
C12_NoPartialResults ==
    OutputMade =>
        /\ DOMAIN output_dir.files # {} =>
              /\ \A k \in 1..Len(runs) : runs[k].status = 0
              /\ Len(StageRuns("reduce")) = MAX_NUM_REDUCE
        /\ FailedRun => DOMAIN output_dir.files = {}
        /\ pc = "done" =>
              /\ DOMAIN output_dir.files
                   = {part_filename(r.n) : r \in Range(StageRuns("reduce"))}
              /\ Cardinality(DOMAIN output_dir.files) = Len(StageRuns("reduce"))
              /\ \A r \in Range(StageRuns("reduce")) :
                    output_dir.files[part_filename(r.n)] = r.out

\* a run that succeeded and whose second reduce task wrote something
C12_Witness ==
    /\ pc = "done"
    /\ Len(StageRuns("reduce")) = MAX_NUM_REDUCE
    /\ part_filename(1) \in DOMAIN output_dir.files
    /\ output_dir.files[part_filename(1)] # <<>>

\* two sequences of lines hold the same lines, each as many times
SameLines(a, b) ==
    /\ Len(a) = Len(b)
    /\ \A line \in Range(a) \cup Range(b) : Count(line, a) = Count(line, b)

\* the lines of mapper-output files of the given contents
LinesOf(contents) ==
    Concat([k \in 1..Len(contents) |-> ReadLines(contents[k])])

\* C13 (determinism): once group_stage has returned, its reducer-input
\* files are those of every other run of group_stage whose mapper-output
\* files hold the same lines as many times, whichever file holds a line and
\* in whatever order the files are listed.
C13_Determinism ==
    GroupDone =>
        \A other \in SeqsUpTo(GroupInputs, MaxMapFiles) :
            SameLines(LinesOf(other), MapperOutputLines) =>
                \A k \in Ordinals(MAX_NUM_REDUCE) :
                    group_stage(other)[k + 1] = tmpdir.grouper_output[part_filename(k)]

\* the line has a tab
HasTab(line) == \E k \in 1..Len(line) : line[k] = TAB

\* every mapper-output file ends with "\n" or is empty
AllTerminated ==
    \A k \in 1..Len(runs) :
        runs[k].out = <<>> \/ runs[k].out[Len(runs[k].out)] = LF

\* C14 (lines without a tab): once group_stage has returned, on
\* mapper-output files that all end with a newline, a line "k\n" without a
\* tab and a line with a tab whose key, the text before its first tab, is k
\* are lines of the same reducer-input file.
C14_TablessLines ==
    (GroupDone /\ AllTerminated) =>
        \A bare, rec \in Range(MapperOutputLines) :
            (~HasTab(bare) /\ HasTab(rec) /\ bare = PartitionTab(rec) \o <<LF>>) =>
                \E k \in Ordinals(MAX_NUM_REDUCE) :
                    /\ bare \in Range(ReducerInputLines(k))
                    /\ rec \in Range(ReducerInputLines(k))

(***************************************************************************)
(* part_filename alone: it is called on two ordinals.                      *)
(***************************************************************************)
MaxSmallOrdinal == 12

\* the largest ordinal that fits the five digits of the format
MaxOrdinal == 10 ^ 5 - 1

\* the ordinals 0 .. MaxSmallOrdinal, those around each change of the number
\* of digits, and the first one past five digits
NameOrdinals ==
    (0..MaxSmallOrdinal)
      \cup {99, 100, 101, 999, 1000, 9999, 10000, MaxOrdinal - 1, MaxOrdinal,
            MaxOrdinal + 1}

\* nothing of mapreduce() is running
Idle ==
    /\ err = "none"
    /\ input_dir = [kind |-> "absent", entries |-> <<>>]
    /\ output_dir = [exists |-> FALSE, files |-> EmptyDir, made |-> FALSE]
    /\ map_exe = GoodExe
    /\ reduce_exe = GoodExe
    /\ tmpdir = NoTmpdir
    /\ NoLocals
    /\ stdout = <<>>
    /\ runs = <<>>
    /\ exe_reads = <<>>

InitNaming ==
    /\ pc = "call"
    /\ Idle
    /\ call = NoCall

\* part_filename(m) and part_filename(n)
PartFilenameCall ==
    /\ pc = "call"
    /\ \E m, n \in NameOrdinals :
          call' = [fn |-> "part_filename", args |-> <<m, n>>,
                   results |-> <<part_filename(m), part_filename(n)>>]
    /\ pc' = "returned"
    /\ UNCHANGED <<err, input_dir, output_dir, map_exe, reduce_exe, tmpdir,
                   prepare_locals, num_map, task_i, group_locals, num_reduce,
                   stdout, runs, exe_reads>>

NextNaming == PartFilenameCall

SpecNaming == InitNaming /\ [][NextNaming]_vars

\* the number a sequence of decimal digits writes
RECURSIVE DecimalValue(_)
DecimalValue(digits) ==
    IF digits = <<>> THEN 0
    ELSE 10 * DecimalValue(SubSeq(digits, 1, Len(digits) - 1))
           + (digits[Len(digits)] - 48)

\* "part-" followed by exactly five decimal digits
IsPartName(name) ==
    /\ Len(name) = 10
    /\ SubSeq(name, 1, 5) = <<112, 97, 114, 116, 45>>
    /\ \A k \in 6..10 : name[k] \in 48..57

\* C15 (PartFile naming): for ordinals m and n of 0 .. 99999,
\* part_filename gives "part-" and exactly five decimal digits that write
\* the ordinal, different names for different ordinals, and for m < n a name
\* that is lexicographically smaller.
C15_PartFilenameNaming ==
    (call.fn = "part_filename"
       /\ \A k \in 1..Len(call.args) : call.args[k] <= MaxOrdinal) =>
        LET m == call.args[1]
            n == call.args[2]
            a == call.results[1]
            b == call.results[2]
        IN  /\ IsPartName(a) /\ DecimalValue(SubSeq(a, 6, 10)) = m
            /\ IsPartName(b) /\ DecimalValue(SubSeq(b, 6, 10)) = n
            /\ m # n => a # b
            /\ m < n => StrLess(a, b)

\* the names of 9 and 10 were asked for: "part-00009" and "part-00010"
C15_Witness ==
    /\ call.fn = "part_filename"
    /\ call.args = <<9, 10>>
    /\ call.results = <<<<112, 97, 114, 116, 45, 48, 48, 48, 48, 57>>,
                        <<112, 97, 114, 116, 45, 48, 48, 48, 49, 48>>>>

\* C16 (contiguous ordinals): once prepare_input_files has returned, the
\* value it returned is the number of partition files, the partition files
\* are those of the ordinals 0 .. n - 1, every one of them is there for its
\* map task, the ordinals of each file copied start where those of the file
\* before it end, and no ordinal is given to two files.
C16_ContiguousOrdinals ==
    PrepareDone =>
        /\ num_map = Cardinality(PartitionNames)
        /\ PartitionNames = {part_filename(i) : i \in Ordinals(num_map)}
        /\ \A i \in Ordinals(num_map) : part_filename(i) \in DOMAIN tmpdir.input
        /\ Len(splits) = Cardinality(RegularFiles)
        /\ \A k \in 1..Len(splits) :
              splits[k].first = (IF k = 1 THEN 0
                                 ELSE splits[k - 1].first + splits[k - 1].num_split)
        /\ \A j, k \in 1..Len(splits) :
              j # k => SplitOrdinals(j) \cap SplitOrdinals(k) = {}
        /\ UNION {SplitOrdinals(k) : k \in 1..Len(splits)} = Ordinals(num_map)

\* a file of two partitions was copied, then one of three: five partitions
C16_Witness ==
    /\ PrepareDone
    /\ Len(splits) = 2
    /\ splits[1].num_split = 2
    /\ splits[2].num_split = 3
    /\ splits[2].first = 2
    /\ num_map = 5

\* C17 (round-robin split): once prepare_input_files has returned, for a
\* file copied to k partitions from ordinal b on, the line of index i (from
\* 0) of the file is the line of index i div k of the partition b + (i mod
\* k), the partitions hold no other line, and their line counts differ by at
\* most one.
C17_RoundRobin ==
    PrepareDone =>
        \A s \in 1..Len(splits) :
            LET lines == ReadLines(input_dir.entries[splits[s].file].content)
                b == splits[s].first
                k == splits[s].num_split
            IN  k > 0 =>
                  /\ \A i \in 0..(Len(lines) - 1) :
                        /\ (i \div k) + 1 <= Len(PartitionLines(b + (i % k)))
                        /\ PartitionLines(b + (i % k))[(i \div k) + 1] = lines[i + 1]
                  /\ SumSeq([j \in 1..k |-> Len(PartitionLines(b + j - 1))]) = Len(lines)
                  /\ \A p, q \in 0..(k - 1) :
                        Len(PartitionLines(b + p)) - Len(PartitionLines(b + q)) \in {-1, 0, 1}

\* a file of five lines was copied to three partitions of 2, 2 and 1 lines
C17_Witness ==
    /\ PrepareDone
    /\ \E s \in 1..Len(splits) :
          /\ splits[s].num_split = 3
          /\ Len(ReadLines(input_dir.entries[splits[s].file].content)) = 5
          /\ Len(PartitionLines(splits[s].first)) = 2
          /\ Len(PartitionLines(splits[s].first + 1)) = 2
          /\ Len(PartitionLines(splits[s].first + 2)) = 1

\* every map task has run and exited with status 0
MapsCompleted ==
    /\ pc # "map"
    /\ Len(StageRuns("map")) = num_map
    /\ \A r \in Range(StageRuns("map")) : r.status = 0

\* every mapper-output file holds the sorted lines of what its task wrote
AllSorted ==
    /\ sort_todo = {}
    /\ \A r \in Range(StageRuns("map")) :
          tmpdir.mapper_output[part_filename(r.n)] = sort_file(r.out)

\* the reducer-input files are closed and hold the whole outcome of the
\* merge of what the map tasks wrote, the mapper-output files taken in one of
\* the orders a listing can hand them out
ShuffleFinal ==
    /\ outfiles = <<>>
    /\ infiles = <<>>
    /\ LET written == [k \in 1..Len(StageRuns("map")) |-> StageRuns("map")[k].out]
       IN  \E order \in Orderings(1..Len(written)) :
              LET merged == group_stage([k \in 1..Len(written) |-> written[order[k]]])
              IN  \A k \in Ordinals(MAX_NUM_REDUCE) :
                     tmpdir.grouper_output[part_filename(k)] = merged[k + 1]

\* C18 (stage barriers): (a) a step that sorts a mapper-output file is taken
\* when every map task has completed; (b) a step that opens the
\* mapper-output files for the merge, or reads a line from one, is taken when
\* every mapper-output file has been sorted; (c) a step that runs a reduce
\* task is taken when the reducer-input files are closed and hold the whole
\* outcome of the merge.
C18_StageBarriers ==
    [][/\ (pc = "group_sort" /\ sort_todo' # sort_todo) => MapsCompleted
       /\ (pc' = "group_merge" /\ infiles' # infiles) => (MapsCompleted /\ AllSorted)
       /\ (pc = "reduce" /\ runs' # runs) => (MapsCompleted /\ AllSorted /\ ShuffleFinal)]_vars

\* two map tasks wrote lines, and the second reduce task has run on its input
C18_Witness ==
    /\ pc = "reduce"
    /\ num_map = 2
    /\ task_i = 2
    /\ \A r \in Range(StageRuns("map")) : r.out # <<>>
    /\ tmpdir.grouper_output[part_filename(1)] # <<>>

(***************************************************************************)
(* check_shebang alone: it is called on an executable.                     *)
(***************************************************************************)
\* first lines: the directive; the directive followed by a space, by a tab,
\* by a form feed, by " -u", by "x"; the directive after a space; the
\* directive without its last character; "#!/bin/sh"; nothing
ShebangFirstLines ==
    {Directive,
     Directive \o <<32>>,
     Directive \o <<9>>,
     Directive \o <<12>>,
     Directive \o <<32, 45, 117>>,
     Directive \o <<120>>,
     <<32>> \o Directive,
     SubSeq(Directive, 1, Len(Directive) - 1),
     <<35, 33, 47, 98, 105, 110, 47, 115, 104>>,
     <<>>}

\* how the first line ends: not at all, "\n", "\r\n", "\r"
ShebangTerminators == {<<>>, <<LF>>, <<CR, LF>>, <<CR>>}

\* what follows the first line: nothing, "x\n", the directive and "\n"
ShebangRests == {<<>>, <<120, LF>>, Directive \o <<LF>>}

ShebangUniverse ==
    {first \o term \o rest :
        first \in ShebangFirstLines, term \in ShebangTerminators,
        rest \in ShebangRests}

InitShebang ==
    /\ pc = "call"
    /\ Idle
    /\ call = NoCall

\* check_shebang(exe): it returns, or raises MadoopError
CheckShebangCall ==
    /\ pc = "call"
    /\ \E exe \in ShebangUniverse :
          call' = [fn |-> "check_shebang", args |-> <<exe>>,
                   results |-> <<IF check_shebang(exe) THEN "returned"
                                 ELSE "MadoopError">>]
    /\ pc' = "returned"
    /\ UNCHANGED <<err, input_dir, output_dir, map_exe, reduce_exe, tmpdir,
                   prepare_locals, num_map, task_i, group_locals, num_reduce,
                   stdout, runs, exe_reads>>

NextShebang == CheckShebangCall

SpecShebang == InitShebang /\ [][NextShebang]_vars

\* C19 (exact directive check): check_shebang returns when the first line
\* of the executable is exactly the directive, and raises MadoopError on
\* every other first line, one that has more characters after the directive
\* included.
C19_ExactDirective ==
    call.fn = "check_shebang" =>
        /\ FirstLineIsDirective(call.args[1]) => call.results[1] = "returned"
        /\ ~FirstLineIsDirective(call.args[1]) => call.results[1] = "MadoopError"

====
